---- MODULE Spec2Model ----
(***************************************************************************)
(* Model of word_split.split_word_from_url (src/word_split.py): one call   *)
(* of the function, from the download to the returned fragment list.       *)
(* Texts are sequences of one-character strings, so that strip, join,      *)
(* split, rfind and slicing are computed as Python computes them.          *)
(***************************************************************************)
EXTENDS Integers, Sequences, FiniteSets

VARIABLES pc, mode, chunk_size, overlap, doc, result

vars == <<pc, mode, chunk_size, overlap, doc, result>>

(***************************************************************************)
(* Bounds of the checked inputs.                                           *)
(***************************************************************************)
MaxChunk == 11
MaxOverlap == 2
Misconfig == 1
MaxParagraphs == 5
MaxChars == 21
MaxCharParagraphs == 2
MaxLines == 4
MaxLineLen == 2

(***************************************************************************)
(* Python's integer and sequence primitives.                               *)
(***************************************************************************)
Max(a, b) == IF a >= b THEN a ELSE b

Min(a, b) == IF a <= b THEN a ELSE b

SetMax(S) == CHOOSE x \in S : \A y \in S : y <= x

SetMin(S) == CHOOSE x \in S : \A y \in S : x <= y

\* a // b for b # 0: the quotient rounded towards minus infinity.
FloorDiv(a, b) ==
  LET n == IF b > 0 THEN a ELSE 0 - a
      d == IF b > 0 THEN b ELSE 0 - b
      q == CHOOSE k \in (0 - (IF n >= 0 THEN n ELSE 0 - n) - 1)..(IF n >= 0 THEN n ELSE 0 - n) :
             k * d <= n /\ n < (k + 1) * d
  IN q

\* a slice bound as Python normalises it for a sequence of length n
SliceIndex(k, n) == IF k < 0 THEN Max(k + n, 0) ELSE Min(k, n)

\* s[lo:hi] with 0-based, possibly negative, bounds
PySlice(s, lo, hi) ==
  LET a == SliceIndex(lo, Len(s))
      b == SliceIndex(hi, Len(s))
  IN IF a < b THEN SubSeq(s, a + 1, b) ELSE <<>>

NL == "\n"

IsSpace(ch) == ch \in {" ", NL}

\* str.strip()
Strip(s) ==
  LET keep == {i \in 1..Len(s) : ~IsSpace(s[i])}
  IN IF keep = {} THEN <<>> ELSE SubSeq(s, SetMin(keep), SetMax(keep))

\* "\n".join(parts)
RECURSIVE Join(_)
Join(parts) ==
  IF parts = <<>> THEN <<>>
  ELSE IF Len(parts) = 1 THEN parts[1]
  ELSE parts[1] \o <<NL>> \o Join(Tail(parts))

\* s.split('\n')
RECURSIVE SplitLines(_)
SplitLines(s) ==
  LET at == {i \in 1..Len(s) : s[i] = NL}
  IN IF at = {} THEN <<s>>
     ELSE <<SubSeq(s, 1, SetMin(at) - 1)>> \o SplitLines(SubSeq(s, SetMin(at) + 1, Len(s)))

\* s.rfind('\n'): the 0-based position of the last newline, or -1
RFindNewline(s) ==
  LET at == {i \in 1..Len(s) : s[i] = NL}
  IN IF at = {} THEN 0 - 1 ELSE SetMax(at) - 1

\* [x for x in s if keep(x)]
RECURSIVE NonBlank(_)
NonBlank(s) ==
  IF s = <<>> THEN <<>>
  ELSE (IF Strip(s[1]) # <<>> THEN <<s[1]>> ELSE <<>>) \o NonBlank(Tail(s))

RECURSIVE TotalLen(_)
TotalLen(s) == IF s = <<>> THEN 0 ELSE Len(s[1]) + TotalLen(Tail(s))

\* mode.lower() on the mode strings of the model
Lower(m) ==
  CASE m = "Paragraph" -> "paragraph"
    [] OTHER -> m

(***************************************************************************)
(* The fragments.                                                          *)
(***************************************************************************)
ErrorFragment(msg) == [id |-> 0, text |-> msg, error |-> TRUE]

EmptyFragment == [id |-> 0, text |-> "no valid content", start |-> 0, end |-> 0]

\* What a run of the try body ends with: a return value, or an exception
\* with the chunks built so far.
Returned(chunks) == [raised |-> FALSE, chunks |-> chunks]

Raised(chunks) == [raised |-> TRUE, chunks |-> chunks]

\* NextId with the fragment counted before it is appended
NextIdStale(chunks) == Len(chunks)

NextId(chunks) == Len(chunks) + 1

Stride(c, o) == c - o

\* Parts rounded up instead of down
PartsRoundedUp(total, c, o) == FloorDiv(total - o, c - o) + 1

Parts(total, c, o) == Max(1, FloorDiv(total - o, Stride(c, o)))

\* StartIdx advancing by chunk_size, the overlap forgotten
StartIdxNoOverlap(i, c, o) == i * c

StartIdx(i, c, o) == i * Stride(c, o)

(***************************************************************************)
(* Paragraph mode.                                                         *)
(***************************************************************************)
Paragraphs(d) == [k \in 1..Len(NonBlank(d)) |-> Strip(NonBlank(d)[k])]

\* ParagraphEnd taken as an inclusive index
ParagraphEndInclusive(i, total, c, o) == Min(i * (c - o) + c - 1, total)

ParagraphEnd(i, total, c, o) == Min(StartIdx(i, c, o) + c, total)

ParagraphChunk(i, paragraphs, c, o) ==
  LET start_idx == StartIdx(i, c, o)
      end_idx == ParagraphEnd(i, Len(paragraphs), c, o)
  IN [id |-> i + 1,
      text |-> Join(PySlice(paragraphs, start_idx, end_idx)),
      start |-> start_idx + 1,
      end |-> end_idx,
      total |-> Len(paragraphs),
      mode |-> "paragraph",
      size |-> end_idx - start_idx]

ParagraphRemainder(chunks, end_idx, paragraphs) ==
  IF end_idx < Len(paragraphs)
  THEN <<[id |-> NextId(chunks),
          text |-> Join(PySlice(paragraphs, end_idx, Len(paragraphs))),
          start |-> end_idx + 1,
          end |-> Len(paragraphs),
          total |-> Len(paragraphs),
          mode |-> "paragraph",
          size |-> Len(paragraphs) - end_idx]>>
  ELSE <<>>

SplitByParagraph(d, c, o) ==
  LET paragraphs == Paragraphs(d)
  IN IF paragraphs = <<>> THEN Returned(<<EmptyFragment>>)
     ELSE IF Stride(c, o) = 0 THEN Raised(<<>>)
     ELSE LET parts == Parts(Len(paragraphs), c, o)
              chunks == [k \in 1..parts |-> ParagraphChunk(k - 1, paragraphs, c, o)]
              end_idx == ParagraphEnd(parts - 1, Len(paragraphs), c, o)
          IN Returned(chunks \o ParagraphRemainder(chunks, end_idx, paragraphs))

(***************************************************************************)
(* Character mode.                                                         *)
(***************************************************************************)
FullText(d) == Join(d)

\* SnapAllowed with a threshold of half the chunk size
SnapAllowedFromHalf(last_newline, start_idx, c) == 2 * last_newline > 2 * start_idx + c

\* last_newline > start_idx + chunk_size * 0.8, in integers
SnapAllowed(last_newline, start_idx, c) == 5 * last_newline > 5 * start_idx + 4 * c

CharEnd(i, full_text, c, o) ==
  LET start_idx == StartIdx(i, c, o)
      end_idx == Min(start_idx + c, Len(full_text))
      last_newline == RFindNewline(PySlice(full_text, 0, end_idx))
  IN IF end_idx < Len(full_text) /\ SnapAllowed(last_newline, start_idx, c)
     THEN last_newline
     ELSE end_idx

CharChunk(i, full_text, c, o) ==
  LET start_idx == StartIdx(i, c, o)
      end_idx == CharEnd(i, full_text, c, o)
  IN [id |-> i + 1,
      text |-> PySlice(full_text, start_idx, end_idx),
      start |-> start_idx,
      end |-> end_idx,
      total |-> Len(full_text),
      mode |-> "character",
      size |-> end_idx - start_idx]

CharRemainder(chunks, end_idx, full_text) ==
  IF end_idx < Len(full_text)
  THEN <<[id |-> NextId(chunks),
          text |-> PySlice(full_text, end_idx, Len(full_text)),
          start |-> end_idx,
          end |-> Len(full_text),
          total |-> Len(full_text),
          mode |-> "character",
          size |-> Len(full_text) - end_idx]>>
  ELSE <<>>

SplitByCharacter(d, c, o) ==
  LET full_text == FullText(d)
  IN IF Strip(full_text) = <<>> THEN Returned(<<EmptyFragment>>)
     ELSE IF Stride(c, o) = 0 THEN Raised(<<>>)
     ELSE LET parts == Parts(Len(full_text), c, o)
              chunks == [k \in 1..parts |-> CharChunk(k - 1, full_text, c, o)]
              end_idx == CharEnd(parts - 1, full_text, c, o)
          IN Returned(chunks \o CharRemainder(chunks, end_idx, full_text))

(***************************************************************************)
(* Line mode.                                                              *)
(***************************************************************************)
NonEmptyLines(d) == NonBlank(SplitLines(FullText(d)))

\* LineStart one line late
LineStartLate(i, current_chunk) == i - Len(current_chunk) + 1

LineStart(i, current_chunk) == i - Len(current_chunk)

\* the fragment closed before line i (i = total_lines for the final fragment)
LineChunk(chunks, current_chunk, current_length, i, total) ==
  [id |-> NextId(chunks),
   text |-> Join(current_chunk),
   start |-> LineStart(i, current_chunk),
   end |-> i - 1,
   total |-> total,
   mode |-> "line",
   size |-> current_length]

Closes(current_chunk, current_length, line_length, c) ==
  current_length + line_length > c /\ current_chunk # <<>>

\* OverlapLines without the minimum of one line
OverlapLinesUnclamped(k, c, o) == FloorDiv(k * o, c)

OverlapLines(k, c, o) == Max(1, FloorDiv(k * o, c))

\* the loop body for line i (0-based) on the loop state st
LineStep(st, i, lines, c, o) ==
  LET line == lines[i + 1]
      line_length == Len(line)
  IN IF ~Closes(st.current_chunk, st.current_length, line_length, c)
     THEN [st EXCEPT !.current_chunk = Append(@, line),
                     !.current_length = @ + line_length]
     ELSE LET closed == Append(st.chunks,
                               LineChunk(st.chunks, st.current_chunk, st.current_length,
                                         i, Len(lines)))
          IN IF c = 0
             THEN [st EXCEPT !.raised = TRUE, !.chunks = closed]
             ELSE LET overlap_lines == OverlapLines(Len(st.current_chunk), c, o)
                      kept == IF overlap_lines > 0 /\ Len(closed) > 0
                              THEN PySlice(st.current_chunk, 0 - overlap_lines,
                                           Len(st.current_chunk))
                              ELSE <<>>
                  IN [raised |-> FALSE,
                      chunks |-> closed,
                      current_chunk |-> Append(kept, line),
                      current_length |-> TotalLen(kept) + line_length]

RECURSIVE LineLoop(_, _, _, _, _)
LineLoop(st, i, lines, c, o) ==
  IF i >= Len(lines) \/ st.raised THEN st
  ELSE LineLoop(LineStep(st, i, lines, c, o), i + 1, lines, c, o)

SplitByLine(d, c, o) ==
  LET full_text == FullText(d)
      non_empty_lines == NonEmptyLines(d)
  IN IF Strip(full_text) = <<>> \/ non_empty_lines = <<>>
     THEN Returned(<<EmptyFragment>>)
     ELSE LET st == LineLoop([raised |-> FALSE, chunks |-> <<>>,
                              current_chunk |-> <<>>, current_length |-> 0],
                             0, non_empty_lines, c, o)
          IN IF st.raised THEN Raised(st.chunks)
             ELSE IF st.current_chunk # <<>>
             THEN Returned(Append(st.chunks,
                     LineChunk(st.chunks, st.current_chunk, st.current_length,
                               Len(non_empty_lines), Len(non_empty_lines))))
             ELSE Returned(st.chunks)

(***************************************************************************)
(* The call: download, import, parse, split.                               *)
(***************************************************************************)
\* Outcome returning the chunks built so far when the body raised
OutcomeKeepsChunks(r) == r.chunks

\* return chunks, or the except clause's single error fragment
Outcome(r) ==
  IF r.raised THEN <<ErrorFragment("processing failed")>> ELSE r.chunks

Xs(n) == [i \in 1..n |-> "x"]

SeqsUpTo(S, n) == UNION {[1..k -> S] : k \in 0..n}

ParagraphTexts == {<<" ">>, <<"x">>, <<" ", "x">>}

CharDocs ==
  {d \in UNION {[1..k -> {Xs(n) : n \in 0..MaxChars}] : k \in 1..MaxCharParagraphs} :
     Len(Join(d)) <= MaxChars}
  \cup {<<<<" ">>>>}

LineTexts == {Xs(n) : n \in 0..MaxLineLen}

Documents(m) ==
  CASE Lower(m) = "paragraph" -> SeqsUpTo(ParagraphTexts, MaxParagraphs)
    [] Lower(m) = "character" -> CharDocs
    [] Lower(m) = "line" -> SeqsUpTo(LineTexts, MaxLines)
    [] OTHER -> {<<<<"x">>>>}

ModeStrings == {"Paragraph", "character", "line", "sentence"}

NoDoc == [parsed |-> FALSE, paragraphs |-> <<>>]

Init ==
  /\ pc = "fetch"
  /\ mode \in ModeStrings
  /\ chunk_size \in (0 - Misconfig)..MaxChunk
  /\ overlap \in (0 - Misconfig)..MaxOverlap
  /\ doc = NoDoc
  /\ result = <<>>

\* requests.get / raise_for_status succeed
FetchOk ==
  /\ pc = "fetch"
  /\ pc' = "import"
  /\ UNCHANGED <<mode, chunk_size, overlap, doc, result>>

\* requests.get or raise_for_status raises: the outer except clause
FetchFails ==
  /\ pc = "fetch"
  /\ pc' = "done"
  /\ result' = Outcome(Raised(<<>>))
  /\ UNCHANGED <<mode, chunk_size, overlap, doc>>

ImportOk ==
  /\ pc = "import"
  /\ pc' = "parse"
  /\ UNCHANGED <<mode, chunk_size, overlap, doc, result>>

ImportFails ==
  /\ pc = "import"
  /\ pc' = "done"
  /\ result' = <<ErrorFragment("cannot import python-docx")>>
  /\ UNCHANGED <<mode, chunk_size, overlap, doc>>

ParseOk ==
  /\ pc = "parse"
  /\ \E d \in Documents(mode) : doc' = [parsed |-> TRUE, paragraphs |-> d]
  /\ pc' = "split"
  /\ UNCHANGED <<mode, chunk_size, overlap, result>>

ParseFails ==
  /\ pc = "parse"
  /\ pc' = "done"
  /\ result' = <<ErrorFragment("document parsing failed")>>
  /\ UNCHANGED <<mode, chunk_size, overlap, doc>>

SplitParagraph ==
  /\ pc = "split"
  /\ Lower(mode) = "paragraph"
  /\ result' = Outcome(SplitByParagraph(doc.paragraphs, chunk_size, overlap))
  /\ pc' = "done"
  /\ UNCHANGED <<mode, chunk_size, overlap, doc>>

SplitCharacter ==
  /\ pc = "split"
  /\ Lower(mode) = "character"
  /\ result' = Outcome(SplitByCharacter(doc.paragraphs, chunk_size, overlap))
  /\ pc' = "done"
  /\ UNCHANGED <<mode, chunk_size, overlap, doc>>

SplitLine ==
  /\ pc = "split"
  /\ Lower(mode) = "line"
  /\ result' = Outcome(SplitByLine(doc.paragraphs, chunk_size, overlap))
  /\ pc' = "done"
  /\ UNCHANGED <<mode, chunk_size, overlap, doc>>

UnsupportedMode ==
  /\ pc = "split"
  /\ Lower(mode) \notin {"paragraph", "character", "line"}
  /\ result' = <<ErrorFragment("unsupported mode")>>
  /\ pc' = "done"
  /\ UNCHANGED <<mode, chunk_size, overlap, doc>>

Next ==
  \/ FetchOk
  \/ FetchFails
  \/ ImportOk
  \/ ImportFails
  \/ ParseOk
  \/ ParseFails
  \/ SplitParagraph
  \/ SplitCharacter
  \/ SplitLine
  \/ UnsupportedMode

Spec == Init /\ [][Next]_vars

(***************************************************************************)
(* Vocabulary of the properties.                                           *)
(***************************************************************************)
Done == pc = "done" /\ doc.parsed

ValidConfig == chunk_size >= 1 /\ 0 <= overlap /\ overlap < chunk_size

InParagraphMode == Lower(mode) = "paragraph"

InCharacterMode == Lower(mode) = "character"

InLineMode == Lower(mode) = "line"

\* N, the number of source units of the fixed-stride modes
Units == IF InParagraphMode THEN Len(Paragraphs(doc.paragraphs))
         ELSE Len(FullText(doc.paragraphs))

HasContent == IF InParagraphMode THEN Paragraphs(doc.paragraphs) # <<>>
              ELSE Strip(FullText(doc.paragraphs)) # <<>>

IsContent(f) == "mode" \in DOMAIN f

IsError(f) == "error" \in DOMAIN f

Mod(a, b) == a - b * FloorDiv(a, b)

\* C1: in paragraph mode with 0 <= overlap < chunk_size and N >= 1 paragraphs,
\* every paragraph index 1..N lies in the inclusive range [start, end] of at
\* least one returned fragment.
ParagraphCoverage ==
  (Done /\ InParagraphMode /\ ValidConfig /\ HasContent) =>
    \A u \in 1..Units :
      \E k \in 1..Len(result) : result[k].start <= u /\ u <= result[k].end

\* a paragraph split of at least two stride fragments and a remainder
ParagraphCoverageWitness ==
  /\ Done /\ InParagraphMode /\ ValidConfig /\ HasContent
  /\ Len(result) >= 3
  /\ result[Len(result)].start = result[Len(result) - 1].end + 1
  /\ result[Len(result)].end = Units

\* C2: in character mode with 0 <= overlap < chunk_size and a non-blank text,
\* every character offset 0..total-1 lies in the half-open range [start, end)
\* of at least one returned fragment.
CharacterCoverage ==
  (Done /\ InCharacterMode /\ ValidConfig /\ HasContent) =>
    \A u \in 0..(Units - 1) :
      \E k \in 1..Len(result) : result[k].start <= u /\ u < result[k].end

\* C3: the returned list is one fragment with id 0 (no content fragment), or
\* its k-th fragment has id k.
FragmentIds ==
  pc = "done" =>
    \/ Len(result) = 1 /\ result[1].id = 0 /\ ~IsContent(result[1])
    \/ Len(result) >= 1 /\ \A k \in 1..Len(result) : result[k].id = k /\ IsContent(result[k])

\* a line split of three or more fragments, and so with a final fragment
FragmentIdsWitness ==
  /\ Done /\ InLineMode
  /\ Len(result) >= 3
  /\ result[Len(result)].id = Len(result)

\* C4: in paragraph and character modes with 0 <= overlap < chunk_size, the
\* starts of consecutive fragments, the last pair excepted, differ by
\* chunk_size - overlap.
StrideInvariant ==
  (Done /\ (InParagraphMode \/ InCharacterMode) /\ ValidConfig) =>
    \A k \in 1..(Len(result) - 2) :
      result[k + 1].start - result[k].start = chunk_size - overlap

\* a character split whose first fragment was snapped to a newline and is
\* followed by two more fragments, with a positive overlap
StrideInvariantWitness ==
  /\ Done /\ InCharacterMode /\ ValidConfig /\ overlap >= 1
  /\ Len(result) >= 3
  /\ result[1].size < chunk_size

\* the stride fragments of the claim: parts = max(1, (N - overlap) div stride)
StrideParts == Max(1, FloorDiv(Units - overlap, chunk_size - overlap))

\* the remainder fragment follows the stride fragments and covers exactly the
\* units from the end of the last stride fragment up to N
RemainderFollows ==
  /\ Len(result) = StrideParts + 1
  /\ LET last == result[StrideParts]
         rem == result[StrideParts + 1]
     IN /\ rem.end = Units
        /\ rem.size = Units - last.end
        /\ rem.size >= 1
        /\ IF InParagraphMode
           THEN /\ rem.start = last.end + 1
                /\ rem.text = Join(SubSeq(Paragraphs(doc.paragraphs), last.end + 1, Units))
           ELSE /\ rem.start = last.end
                /\ rem.text = SubSeq(FullText(doc.paragraphs), last.end + 1, Units)

Fault ==
  \/ (InParagraphMode \/ InCharacterMode) /\ HasContent /\ chunk_size - overlap = 0
  \/ InLineMode /\ chunk_size = 0 /\ Len(NonEmptyLines(doc.paragraphs)) >= 2

\* some step of the call can be taken: the download, the import and the
\* parse end one way or the other, and the mode dispatch has a branch for
\* every mode string
StepAvailable ==
  \/ pc \in {"fetch", "import", "parse"}
  \/ pc = "split" /\ doc.parsed /\ (InParagraphMode \/ InCharacterMode \/ InLineMode
                                     \/ Lower(mode) \notin {"paragraph", "character", "line"})

\* C6: whatever the mode string, chunk_size and overlap, the call is never
\* stuck before its return, the returned list is non-empty, an error fragment
\* is alone in it, and a fault during splitting gives exactly one fragment
\* with id 0 and error = true.
FailuresAsData ==
  /\ pc # "done" => StepAvailable
  /\ pc = "done" =>
       /\ Len(result) >= 1
       /\ \A k \in 1..Len(result) : IsError(result[k]) => Len(result) = 1
  /\ (Done /\ Fault) =>
       /\ Len(result) = 1
       /\ result[1].id = 0
       /\ IsError(result[1])
       /\ result[1].error

\* a line split with chunk_size 0 that fails when its third fragment would be
\* begun: fragments had been built when the fault occurred
FailuresAsDataWitness ==
  /\ Done /\ InLineMode /\ chunk_size = 0
  /\ Len(NonEmptyLines(doc.paragraphs)) >= 3
  /\ Len(result) = 1
  /\ IsError(result[1])

\* the lines of a fragment's text
FragmentLines(k) == SplitLines(result[k].text)

\* the lines fragment k + 1 takes over from fragment k
CarriedOver(k) == Max(1, FloorDiv(Len(FragmentLines(k)) * overlap, chunk_size))

Carry(k) == IF k = 1 THEN 0 ELSE CarriedOver(k - 1)

RECURSIVE NewLinesFrom(_)
NewLinesFrom(k) ==
  IF k > Len(result) THEN <<>>
  ELSE SubSeq(FragmentLines(k), Carry(k) + 1, Len(FragmentLines(k))) \o NewLinesFrom(k + 1)

\* C7: in line mode with chunk_size >= 1 and overlap < chunk_size, a fragment
\* is closed before a line exactly when the accumulated length plus that
\* line's length exceeds chunk_size, and each fragment after the first begins
\* with exactly the last max(1, k * overlap div chunk_size) lines of the one
\* before it (k its line count), followed by at least one new line; the new
\* lines of all fragments are the non-empty lines, in order.
LineCarryOver ==
  (Done /\ InLineMode /\ chunk_size >= 1 /\ overlap < chunk_size /\ IsContent(result[1])) =>
    /\ \A k \in 1..(Len(result) - 1) :
         LET f == FragmentLines(k)
             g == FragmentLines(k + 1)
             m == CarriedOver(k)
         IN /\ m <= Len(f)
            /\ Len(g) > m
            /\ SubSeq(g, 1, m) = SubSeq(f, Len(f) - m + 1, Len(f))
            /\ TotalLen(f) + Len(g[m + 1]) > chunk_size
    /\ \A k \in 1..Len(result) :
         \A p \in (Carry(k) + 2)..Len(FragmentLines(k)) :
           TotalLen(SubSeq(FragmentLines(k), 1, p)) <= chunk_size
    /\ NewLinesFrom(1) = NonEmptyLines(doc.paragraphs)

\* the example of the specification: chunk_size 5, overlap 2 and four lines
\* of length 2 give three fragments of two lines each
LineCarryOverWitness ==
  /\ Done /\ InLineMode /\ chunk_size = 5 /\ overlap = 2
  /\ NonEmptyLines(doc.paragraphs) = <<Xs(2), Xs(2), Xs(2), Xs(2)>>
  /\ Len(result) = 3
  /\ \A k \in 1..3 : FragmentLines(k) = <<Xs(2), Xs(2)>>

\* C8: in character mode with 0 <= overlap < chunk_size, every returned
\* fragment but the last has 5 * size > 4 * chunk_size.
CharacterMinLength ==
  (Done /\ InCharacterMode /\ ValidConfig) =>
    \A k \in 1..(Len(result) - 1) : 5 * result[k].size > 4 * chunk_size

\* a character split with a fragment, not the last, snapped to a newline
CharacterMinLengthWitness ==
  /\ Done /\ InCharacterMode /\ ValidConfig
  /\ \E k \in 1..(Len(result) - 1) :
       /\ result[k].size < chunk_size
       /\ FullText(doc.paragraphs)[result[k].end + 1] = NL

\* C9: every line-mode fragment holds exactly the non-empty lines at the
\* 0-based indices start..end, with 0 <= start, end <= total - 1, and the last
\* fragment ends at total - 1.
LineIndexConsistency ==
  (Done /\ InLineMode /\ IsContent(result[1])) =>
    /\ \A k \in 1..Len(result) :
         /\ result[k].end - result[k].start + 1 = Len(FragmentLines(k))
         /\ result[k].start >= 0
         /\ result[k].end <= Len(NonEmptyLines(doc.paragraphs)) - 1
         /\ FragmentLines(k) =
              SubSeq(NonEmptyLines(doc.paragraphs), result[k].start + 1, result[k].end + 1)
    /\ result[Len(result)].end = Len(NonEmptyLines(doc.paragraphs)) - 1

\* a line split whose second and third fragments were built after an overlap
\* carry-over of a line of the fragment before
LineIndexConsistencyWitness ==
  /\ Done /\ InLineMode /\ IsContent(result[1])
  /\ Len(result) >= 3
  /\ result[2].start <= result[1].end
  /\ result[3].start <= result[2].end

\* C10: in paragraph and character modes with 0 <= overlap < chunk_size, every
\* returned fragment has size at most chunk_size.
FragmentSizeCap ==
  (Done /\ (InParagraphMode \/ InCharacterMode) /\ ValidConfig) =>
    \A k \in 1..Len(result) :
      IsContent(result[k]) => result[k].size <= chunk_size

====
